---- MODULE Spec2Model ----
(***************************************************************************)
(* Model of src/src/zfile.cc: the node binding that opens a file inside a  *)
(* zone.  uv_ZFile runs on a thread-pool thread, resolves the zone name    *)
(* and calls zfile up to three times; zfile takes the process-wide mutex,  *)
(* activates a process-contract template, forks a worker that enters the   *)
(* zone, opens the file and passes the descriptor back over a socketpair,  *)
(* reaps the worker and returns the received descriptor.                   *)
(*                                                                         *)
(* One thread-pool thread is one element of Threads.  The worker forked by *)
(* thread t is worker[t]; it is a separate process, so only its position,  *)
(* its exit status and what it put into the channel are visible to the     *)
(* parent.  The parent's descriptor table is fdtab.                        *)
(***************************************************************************)
EXTENDS Integers, Sequences, FiniteSets, TLC

\* ------------------------------------------------------------------ bounds
NumThreads == 2
MaxFd == 7
MaxFaults == 1

Threads == 1..NumThreads
FdNums == 0..MaxFd

\* ------------------------------------------------------- program constants
MODE_R == 0
MODE_W == 1
MODE_A == 2
MaxAttempts == 3

\* errno values of the platform (sys/errno.h)
EPERM == 1
ENOENT == 2
EINTR == 4
ECHILD == 10
EAGAIN == 11
EINVAL == 22
EMFILE == 24

\* worker exit codes (_exit arguments)
EXIT_OK == 0
EXIT_ZONE == 1
EXIT_OPEN == 2
EXIT_SEND == 4
EXIT_MODE == 6

SIGKILL == 9

\* a mode outside {MODE_R, MODE_W, MODE_A}
BadMode == 3
Modes == {MODE_R, MODE_W, MODE_A, BadMode}

\* the zone id getzoneidbyname resolves an existing zone name to
ZoneId == 1

VARIABLES
    lock,       \* pthread mutex `lock`: 0 when free, else the owning thread
    pc,         \* position of each thread
    baton,      \* eio_baton_t of the thread's request
    uv,         \* locals of uv_ZFile: zoneid, file_fd, attempts
    loc,        \* locals of the running zfile call
    errno,      \* thread-local errno
    worker,     \* the forked child of the thread's current zfile call
    chan,       \* the socketpair: "none", "empty" or "fd" (a descriptor in flight)
    fdtab,      \* descriptor table of the node process
    tmpl,       \* tmpl[t]: thread t has an active process-contract template
    cb,         \* arguments the completion callback was called with
    env         \* the environment: how many more failures it may inject

vars == <<lock, pc, baton, uv, loc, errno, worker, chan, fdtab, tmpl, cb, env>>

\* ------------------------------------------------------------ environment
\* A system call, the worker's zone entry or the delivery of a signal is an
\* outcome the environment chooses.  env.bounded = FALSE: every outcome is
\* possible at every step; otherwise at most env.left more outcomes other
\* than the successful one occur.
Env(failed) ==
    /\ failed => (~env.bounded \/ env.left > 0)
    /\ env' = IF failed /\ env.bounded THEN [env EXCEPT !.left = @ - 1] ELSE env

\* ------------------------------------------------------ descriptor table
NoFd == [kind |-> "closed", by |-> 0, cloexec |-> FALSE]

IsOpen(tab, n) == n \in FdNums /\ tab[n].kind # "closed"

HasFree(tab) == \E n \in FdNums : ~IsOpen(tab, n)

\* the kernel hands out the lowest unused descriptor number
LowestFree(tab) ==
    CHOOSE n \in FdNums : ~IsOpen(tab, n) /\ \A m \in 0..(n - 1) : IsOpen(tab, m)

Alloc(tab, kind, t) ==
    [tab EXCEPT ![LowestFree(tab)] = [kind |-> kind, by |-> t, cloexec |-> FALSE]]

Close(tab, n) == IF n \in FdNums THEN [tab EXCEPT ![n] = NoFd] ELSE tab

\* ------------------------------------------------------------ eio_baton_t
NewBaton(mode) == [_mode |-> mode, _errno |-> 0, _fd |-> -1, _syscall |-> "NULL"]

\* setErrno that drops the name of the failing call
setErrno_NoSyscall(b, syscall, errorno) ==
    [b EXCEPT !._fd = -1, !._errno = errorno]

setErrno(b, syscall, errorno) ==
    [b EXCEPT !._syscall = syscall, !._fd = -1, !._errno = errorno]

\* --------------------------------------------------------- locals of zfile
ZfileLocals ==
    [ct |-> -1, _errno |-> 0, pid |-> 0, file_fd |-> 0,
     sockfd0 |-> 0, sockfd1 |-> 0, stat |-> 0, tmpl_fd |-> 0]

NoWorker ==
    [wpc |-> "none", entered |-> FALSE, opened |-> FALSE, sent |-> FALSE,
     status |-> 0, tmpl |-> FALSE, openmode |-> {}, rcvd |-> -1,
     reads |-> 0, cmsg |-> "none"]

NoCb == [argc |-> 0, err |-> FALSE, errno |-> 0, syscall |-> "NULL", fd |-> -1]

\* positions of a thread inside zfile, between taking and releasing the mutex
InLock == {"init_template", "socketpair", "fork", "contract_latest",
           "tmpl_clear", "abandon", "wait", "decode", "finish"}

\* wait status encoding of <sys/wait.h>
ExitStatus(code) == code * 256
\* a decoding that takes every status for a normal exit
WIFEXITED_Always(stat) == TRUE

WIFEXITED(stat) == stat % 256 = 0
WEXITSTATUS(stat) == (stat \div 256) % 256


\* ------------------------------------------------------------------- Init
\* fds 0..2 are the standard streams of the node process
StdioTab == [n \in FdNums |-> IF n <= 2 THEN [kind |-> "stdio", by |-> 0, cloexec |-> FALSE]
                                        ELSE NoFd]

\* ZFile (the binding): a baton with the mode argument is queued with
\* uv_queue_work; `req` is the set of threads that run a request.
InitWith(req, modes, e) ==
    /\ env = e
    /\ lock = 0
    /\ pc = [t \in Threads |-> IF t \in req THEN "uv_ZFile" ELSE "idle"]
    /\ baton \in [Threads -> {NewBaton(m) : m \in modes}]
    /\ \A t \in Threads \ req : baton[t] = NewBaton(MODE_R)
    /\ uv = [t \in Threads |-> [zoneid |-> 0, file_fd |-> -1, attempts |-> 0]]
    /\ loc = [t \in Threads |-> ZfileLocals]
    /\ errno = [t \in Threads |-> 0]
    /\ worker = [t \in Threads |-> NoWorker]
    /\ chan = [t \in Threads |-> "none"]
    /\ fdtab = StdioTab
    /\ tmpl = [t \in Threads |-> FALSE]
    /\ cb = [t \in Threads |-> NoCb]

\* one request, any mode
Init == InitWith({1}, Modes, [bounded |-> FALSE, left |-> 0])

\* ------------------------------------------------------------- uv_ZFile
\* a lookup whose result is never tested
ZoneResolved_Always(zoneid) == TRUE

\* the test of getzoneidbyname's result (line 463)
ZoneResolved(zoneid) == ~(zoneid < 0)

\* getzoneidbyname, then the first call of zfile (lines 462-471)
UvZFile(t) ==
    /\ pc[t] = "uv_ZFile"
    /\ \E zoneid \in {-1, ZoneId} :
         /\ Env(zoneid < 0)
         /\ IF ~ZoneResolved(zoneid)
            THEN /\ errno' = [errno EXCEPT ![t] = EINVAL]
                 /\ baton' = [baton EXCEPT ![t] = setErrno(@, "getzoneidbyname", EINVAL)]
                 /\ uv' = [uv EXCEPT ![t].zoneid = zoneid]
                 /\ pc' = [pc EXCEPT ![t] = "uv_After"]
            ELSE /\ uv' = [uv EXCEPT ![t] = [zoneid |-> zoneid, file_fd |-> -1, attempts |-> 1]]
                 /\ pc' = [pc EXCEPT ![t] = "zfile"]
                 /\ UNCHANGED <<errno, baton>>
    /\ UNCHANGED <<lock, loc, worker, chan, fdtab, tmpl, cb>>

\* a retry loop without the attempt limit
RetryAgain_NoLimit(attempts, file_fd) == file_fd < 0

\* the loop condition `attempts++ < 3 && file_fd < 0` (line 472)
RetryAgain(attempts, file_fd) == attempts < MaxAttempts /\ file_fd < 0

\* zfile has returned into uv[t].file_fd: evaluate the loop condition and
\* either call zfile again or fill in the baton (lines 472-480)
UvLoop(t) ==
    /\ pc[t] = "uv_loop"
    /\ uv' = [uv EXCEPT ![t].attempts = @ + 1]
    /\ worker' = [worker EXCEPT ![t] = NoWorker]
    /\ IF RetryAgain(uv[t].attempts, uv[t].file_fd)
       THEN /\ pc' = [pc EXCEPT ![t] = "zfile"]
            /\ UNCHANGED baton
       ELSE /\ pc' = [pc EXCEPT ![t] = "uv_After"]
            /\ baton' = [baton EXCEPT ![t] =
                   IF uv[t].file_fd < 0 THEN setErrno(@, "zfile", errno[t])
                   ELSE [@ EXCEPT !._fd = uv[t].file_fd]]
    /\ UNCHANGED <<lock, loc, errno, chan, fdtab, tmpl, cb, env>>

\* uv_After: the callback gets (error) or (null, fd) (lines 489-502)
CallbackArgs(b) ==
    IF b._fd < 0
    THEN [argc |-> 1, err |-> TRUE, errno |-> b._errno, syscall |-> b._syscall, fd |-> -1]
    ELSE [argc |-> 2, err |-> FALSE, errno |-> 0, syscall |-> "NULL", fd |-> b._fd]

UvAfter(t) ==
    /\ pc[t] = "uv_After"
    /\ cb' = [cb EXCEPT ![t] = CallbackArgs(baton[t])]
    /\ pc' = [pc EXCEPT ![t] = "done"]
    /\ UNCHANGED <<lock, baton, uv, loc, errno, worker, chan, fdtab, tmpl, env>>

\* ------------------------------------------------------------------ zfile
\* a lock that never blocks
CanLock_Always(l) == TRUE

\* pthread_mutex_lock blocks while another thread owns the mutex
CanLock(l) == l = 0

\* an exit path that forgets to unlock
pthread_mutex_unlock_Missing(l, t) == l

pthread_mutex_unlock(l, t) == IF l = t THEN 0 ELSE l

\* zfile returns `ret` with errno `e`: its locals go out of scope and the
\* value lands in uv_ZFile's file_fd (line 471)
Return(t, ret, e) ==
    /\ pc' = [pc EXCEPT ![t] = "uv_loop"]
    /\ uv' = [uv EXCEPT ![t].file_fd = ret]
    /\ errno' = [errno EXCEPT ![t] = e]
    /\ loc' = [loc EXCEPT ![t] = ZfileLocals]

\* entry checks and pthread_mutex_lock (lines 339-347)
ZfileLock(t) ==
    /\ pc[t] = "zfile"
    /\ IF uv[t].zoneid < 0
       THEN /\ Return(t, -1, errno[t])
            /\ UNCHANGED lock
       ELSE /\ CanLock(lock)
            /\ lock' = t
            /\ pc' = [pc EXCEPT ![t] = "init_template"]
            /\ UNCHANGED <<uv, errno, loc>>
    /\ UNCHANGED <<baton, worker, chan, fdtab, tmpl, cb, env>>

\* init_template (lines 157-175): open the template, configure, activate.
\* r = "open": open64 fails; r = "cfg": a ct_*_set_* call or ct_tmpl_activate
\* fails and the descriptor is closed again; r = "ok".
init_template(tab, t, r) ==
    IF r = "open" \/ ~HasFree(tab)
    THEN [fd |-> -1, tab |-> tab, active |-> FALSE, errno |-> EMFILE]
    ELSE IF r = "cfg"
    THEN [fd |-> -1, tab |-> Close(Alloc(tab, "tmpl", t), LowestFree(tab)),
          active |-> FALSE, errno |-> EINVAL]
    ELSE [fd |-> LowestFree(tab), tab |-> Alloc(tab, "tmpl", t),
          active |-> TRUE, errno |-> 0]

\* lines 349-352
InitTemplate(t) ==
    /\ pc[t] = "init_template"
    /\ \E r \in {"ok", "open", "cfg"} :
         LET res == init_template(fdtab, t, r) IN
         /\ Env(r # "ok")
         /\ fdtab' = res.tab
         /\ tmpl' = [tmpl EXCEPT ![t] = res.active]
         /\ IF res.fd < 0
            THEN /\ lock' = pthread_mutex_unlock(lock, t)
                 /\ Return(t, -1, res.errno)
            ELSE /\ loc' = [loc EXCEPT ![t].tmpl_fd = res.fd]
                 /\ pc' = [pc EXCEPT ![t] = "socketpair"]
                 /\ UNCHANGED <<lock, uv, errno>>
    /\ UNCHANGED <<baton, worker, chan, cb>>

\* a template that is never cleared
ct_tmpl_clear_Missing(active) == active

\* ct_tmpl_clear: the calling process has no active template afterwards
\* (lines 355, 364, 373, 420)
ct_tmpl_clear(active) == FALSE

\* lines 354-358: socketpair needs two free descriptors
Socketpair(t) ==
    /\ pc[t] = "socketpair"
    /\ \E ok \in BOOLEAN :
         LET tab1 == Alloc(fdtab, "sock", t) IN
         /\ Env(~ok)
         /\ IF ok /\ HasFree(fdtab) /\ HasFree(tab1)
            THEN /\ fdtab' = Alloc(tab1, "sock", t)
                 /\ loc' = [loc EXCEPT ![t].sockfd0 = LowestFree(fdtab),
                                       ![t].sockfd1 = LowestFree(tab1)]
                 /\ chan' = [chan EXCEPT ![t] = "empty"]
                 /\ pc' = [pc EXCEPT ![t] = "fork"]
                 /\ UNCHANGED <<lock, uv, errno, tmpl>>
            ELSE /\ tmpl' = [tmpl EXCEPT ![t] = ct_tmpl_clear(@)]
                 /\ lock' = pthread_mutex_unlock(lock, t)
                 /\ Return(t, -1, EMFILE)
                 /\ UNCHANGED <<fdtab, chan>>
    /\ UNCHANGED <<baton, worker, cb>>

\* the pid fork gives the worker of thread t
PidOf(t) == 100 + t

\* lines 360-370: fork; the child starts with a copy of everything,
\* including the active template
Fork(t) ==
    /\ pc[t] = "fork"
    /\ \E ok \in BOOLEAN :
         /\ Env(~ok)
         /\ IF ok
            THEN /\ loc' = [loc EXCEPT ![t].pid = PidOf(t)]
                 /\ worker' = [worker EXCEPT ![t] = [NoWorker EXCEPT !.wpc = "setup",
                                                                     !.tmpl = tmpl[t]]]
                 /\ pc' = [pc EXCEPT ![t] = "contract_latest"]
                 /\ UNCHANGED <<lock, uv, errno, tmpl, fdtab, chan>>
            ELSE /\ tmpl' = [tmpl EXCEPT ![t] = ct_tmpl_clear(@)]
                 /\ fdtab' = Close(Close(fdtab, loc[t].sockfd0), loc[t].sockfd1)
                 /\ chan' = [chan EXCEPT ![t] = "none"]
                 /\ lock' = pthread_mutex_unlock(lock, t)
                 /\ Return(t, -1, EAGAIN)
                 /\ UNCHANGED worker
    /\ UNCHANGED <<baton, cb>>


\* ------------------------------------------- parent path: contract tracking
\* the id of the contract the fork of thread t created
CtOf(t) == 200 + t

\* contract_latest (lines 178-197).  r = "open": open64 of .../latest fails;
\* r = "read": ct_status_read fails; r = "ok".  The descriptor is closed on
\* both paths that opened it.  ret is 0 or an errno value, never -1.
contract_latest(tab, t, id, r) ==
    IF r = "open" \/ ~HasFree(tab)
    THEN [ret |-> ENOENT, id |-> id, tab |-> tab, errno |-> ENOENT]
    ELSE LET cfd == LowestFree(tab)
             tab1 == Alloc(tab, "latest", t) IN
         IF r = "read"
         THEN [ret |-> EINVAL, id |-> id, tab |-> Close(tab1, cfd), errno |-> EINVAL]
         ELSE [ret |-> 0, id |-> CtOf(t), tab |-> Close(tab1, cfd), errno |-> 0]

\* lines 417-419
ContractLatest(t) ==
    /\ pc[t] = "contract_latest"
    /\ \E r \in {"ok", "open", "read"} :
         LET res == contract_latest(fdtab, t, loc[t].ct, r) IN
         /\ Env(r # "ok")
         /\ fdtab' = res.tab
         /\ loc' = [loc EXCEPT ![t].ct = IF res.ret = -1 THEN -1 ELSE res.id]
         /\ errno' = [errno EXCEPT ![t] = IF res.ret = 0 THEN @ ELSE res.errno]
    /\ pc' = [pc EXCEPT ![t] = "tmpl_clear"]
    /\ UNCHANGED <<lock, baton, uv, worker, chan, tmpl, cb>>

\* lines 420-421: ct_tmpl_clear, close(tmpl_fd)
TmplClear(t) ==
    /\ pc[t] = "tmpl_clear"
    /\ tmpl' = [tmpl EXCEPT ![t] = ct_tmpl_clear(@)]
    /\ fdtab' = Close(fdtab, loc[t].tmpl_fd)
    /\ pc' = [pc EXCEPT ![t] = "abandon"]
    /\ UNCHANGED <<lock, baton, uv, loc, errno, worker, chan, cb, env>>

\* close_on_exec (lines 200-205): fcntl fails only on a descriptor that is
\* not open
close_on_exec(tab, fd) ==
    IF IsOpen(tab, fd)
    THEN [ret |-> 0, tab |-> [tab EXCEPT ![fd].cloexec = TRUE]]
    ELSE [ret |-> -1, tab |-> tab]

\* contract_open (lines 208-235): the ctl file of contract ctid exists only
\* for a real contract id; exists = FALSE also stands for any other open64
\* failure
contract_open(tab, t, ctid, exists) ==
    IF ctid < 0 \/ ~exists \/ ~HasFree(tab)
    THEN [fd |-> -1, tab |-> tab, errno |-> ENOENT]
    ELSE LET fd == LowestFree(tab)
             coe == close_on_exec(Alloc(tab, "ctl", t), fd) IN
         IF coe.ret = -1
         THEN [fd |-> -1, tab |-> Close(coe.tab, fd), errno |-> EINVAL]
         ELSE [fd |-> fd, tab |-> coe.tab, errno |-> 0]

\* contract_abandon_id (lines 238-250); abandoned = FALSE: ct_ctl_abandon fails
contract_abandon_id(tab, t, ctid, exists, abandoned) ==
    LET o == contract_open(tab, t, ctid, exists) IN
    IF o.fd = -1
    THEN [ret |-> o.errno, tab |-> o.tab, errno |-> o.errno]
    ELSE [ret |-> IF abandoned THEN 0 ELSE EINVAL,
          tab |-> Close(o.tab, o.fd),
          errno |-> IF abandoned THEN 0 ELSE EINVAL]

\* lines 422-423: contract_abandon_id(ct), close(sockfd[1])
Abandon(t) ==
    /\ pc[t] = "abandon"
    /\ \E exists \in BOOLEAN, abandoned \in BOOLEAN :
         LET res == contract_abandon_id(fdtab, t, loc[t].ct, exists, abandoned) IN
         /\ Env(~exists \/ ~abandoned)
         /\ fdtab' = Close(res.tab, loc[t].sockfd1)
         /\ errno' = [errno EXCEPT ![t] = IF res.ret = 0 THEN @ ELSE res.errno]
    /\ pc' = [pc EXCEPT ![t] = "wait"]
    /\ UNCHANGED <<lock, baton, uv, loc, worker, chan, tmpl, cb>>

\* ------------------------------------------------------------ child path
Running == {"setup", "zone_enter", "open", "send", "exit"}

\* _exit(code): the worker becomes a zombie with a normal exit status
Exit(w, code) == [w EXCEPT !.wpc = "zombie", !.status = ExitStatus(code)]

\* lines 373-375: ct_tmpl_clear and close of the child's copies of tmpl_fd
\* and sockfd[0]
ChildSetup(t) ==
    /\ worker[t].wpc = "setup"
    /\ worker' = [worker EXCEPT ![t].wpc = "zone_enter", ![t].tmpl = ct_tmpl_clear(@)]
    /\ UNCHANGED <<lock, pc, baton, uv, loc, errno, chan, fdtab, tmpl, cb, env>>

\* what the child does when zone_enter returned nonzero with errno e
\* (lines 378-384)
ZoneEnterFailed(w, e) == IF e = EINVAL THEN Exit(w, EXIT_OK) ELSE Exit(w, EXIT_ZONE)

\* lines 378-386: zone_enter succeeds (e = 0) or fails with errno e
ChildZoneEnter(t) ==
    /\ worker[t].wpc = "zone_enter"
    /\ \E e \in {0, EINVAL, EPERM} :
         /\ Env(e # 0)
         /\ worker' = [worker EXCEPT ![t] =
             IF e = 0 THEN [@ EXCEPT !.wpc = "open", !.entered = TRUE]
             ELSE ZoneEnterFailed(@, e)]
    /\ UNCHANGED <<lock, pc, baton, uv, loc, errno, chan, fdtab, tmpl, cb>>

\* the switch on mode (lines 388-401); O_RDONLY is the absence of O_WRONLY
ValidMode(mode) == mode \in {MODE_R, MODE_W, MODE_A}

OpenMode(mode) ==
    CASE mode = MODE_R -> {}
      [] mode = MODE_W -> {"O_WRONLY", "O_CREAT", "O_TRUNC"}
      [] mode = MODE_A -> {"O_APPEND", "O_CREAT"}
      [] OTHER -> {}

\* open(path, openmode) succeeds when nothing else is in the way and the
\* file exists or is created
OpenSucceeds(openmode, exists, denied) == ~denied /\ (exists \/ "O_CREAT" \in openmode)

\* lines 388-406: an invalid mode exits 6 before the open, a failed open
\* exits 2
ChildOpen(t) ==
    /\ worker[t].wpc = "open"
    /\ \E exists \in BOOLEAN, denied \in BOOLEAN :
         /\ Env(~exists \/ denied)
         /\ worker' = [worker EXCEPT ![t] =
             IF ~ValidMode(baton[t]._mode) THEN Exit(@, EXIT_MODE)
             ELSE IF OpenSucceeds(OpenMode(baton[t]._mode), exists, denied)
             THEN [@ EXCEPT !.wpc = "send", !.opened = TRUE,
                            !.openmode = OpenMode(baton[t]._mode)]
             ELSE Exit(@, EXIT_OPEN)]
    /\ UNCHANGED <<lock, pc, baton, uv, loc, errno, chan, fdtab, tmpl, cb>>

\* lines 408-411: write_fd puts one byte and the descriptor into the
\* channel; a failed sendmsg exits 4
ChildSend(t) ==
    /\ worker[t].wpc = "send"
    /\ \E ok \in BOOLEAN :
         /\ Env(~ok)
         /\ IF ok
            THEN /\ chan' = [chan EXCEPT ![t] = "fd"]
                 /\ worker' = [worker EXCEPT ![t].wpc = "exit", ![t].sent = TRUE]
            ELSE /\ worker' = [worker EXCEPT ![t] = Exit(@, EXIT_SEND)]
                 /\ UNCHANGED chan
    /\ UNCHANGED <<lock, pc, baton, uv, loc, errno, fdtab, tmpl, cb>>

\* lines 413-414: _exit(0) after the send
ChildExit(t) ==
    /\ worker[t].wpc = "exit"
    /\ worker' = [worker EXCEPT ![t] = Exit(@, EXIT_OK)]
    /\ UNCHANGED <<lock, pc, baton, uv, loc, errno, chan, fdtab, tmpl, cb, env>>

\* the worker is terminated by a signal before it exits
ChildKilled(t) ==
    /\ worker[t].wpc \in Running
    /\ Env(TRUE)
    /\ worker' = [worker EXCEPT ![t].wpc = "zombie", ![t].status = SIGKILL]
    /\ UNCHANGED <<lock, pc, baton, uv, loc, errno, chan, fdtab, tmpl, cb>>


\* ------------------------------------------------- parent path: reap, receive
\* a wait that is not repeated
WaitAgain_NoRetry(ret, pid, e) == FALSE

\* a wait loop that never ends
WaitAgain_Forever(ret, pid, e) == TRUE

\* the condition of the wait loop (line 425): wait again unless waitpid
\* returned the pid or failed with ECHILD
WaitAgain(ret, pid, e) == ret # pid /\ e # ECHILD

\* line 425, one waitpid call.  "reaped": the worker has terminated and
\* waitpid returns its pid and status; "EINTR": a signal interrupts the
\* wait; "ECHILD": the terminated worker was collected by another waiter of
\* the process (the event loop's SIGCHLD handler), so waitpid finds no child.
Wait(t) ==
    /\ pc[t] = "wait"
    /\ \E r \in {"reaped", "EINTR", "ECHILD"} :
         LET ret == IF r = "reaped" THEN loc[t].pid ELSE -1
             e == IF r = "reaped" THEN errno[t] ELSE IF r = "EINTR" THEN EINTR ELSE ECHILD IN
         /\ Env(r # "reaped")
         /\ r # "EINTR" => worker[t].wpc = "zombie"
         /\ worker' = [worker EXCEPT ![t].wpc = IF r = "EINTR" THEN @ ELSE "reaped"]
         /\ loc' = [loc EXCEPT ![t].stat = IF r = "reaped" THEN worker[t].status ELSE @]
         /\ errno' = [errno EXCEPT ![t] = e]
         /\ pc' = [pc EXCEPT ![t] = IF WaitAgain(ret, loc[t].pid, e) THEN "wait" ELSE "decode"]
    /\ UNCHANGED <<lock, baton, uv, chan, fdtab, tmpl, cb>>

\* read_fd (lines 253-292) on the parent's end of the channel.  ch is the
\* channel, r what recvmsg delivers: "error" (recvmsg fails), "rights" (the
\* byte with an SCM_RIGHTS message; the kernel installs the descriptor),
\* "nocmsg" (the byte, no control message of the expected length), "badcmsg"
\* (a control message of another level or type).  With nothing in the
\* channel recvmsg returns 0.  recvfd is the old value of *recvfd, which is
\* left alone when recvmsg returned <= 0.
read_fd(tab, t, ch, r, recvfd, e) ==
    IF r = "error"
    THEN [n |-> -1, recvfd |-> recvfd, tab |-> tab, ch |-> ch, errno |-> EINTR, rcvd |-> -1,
          cmsg |-> "error"]
    ELSE IF ch # "fd"
    THEN [n |-> 0, recvfd |-> recvfd, tab |-> tab, ch |-> ch, errno |-> e, rcvd |-> -1,
          cmsg |-> "eof"]
    ELSE IF r = "badcmsg"
    THEN [n |-> -1, recvfd |-> -1, tab |-> tab, ch |-> "empty", errno |-> EINVAL, rcvd |-> -1,
          cmsg |-> "badcmsg"]
    ELSE IF r = "rights" /\ HasFree(tab)
    THEN [n |-> 1, recvfd |-> LowestFree(tab), tab |-> Alloc(tab, "file", t),
          ch |-> "empty", errno |-> e, rcvd |-> LowestFree(tab), cmsg |-> "rights"]
    ELSE [n |-> 1, recvfd |-> -1, tab |-> tab, ch |-> "empty", errno |-> e, rcvd |-> -1,
          cmsg |-> "nocmsg"]

\* lines 427-440: decode the wait status; read the channel when the exit
\* code is 0
Decode(t) ==
    /\ pc[t] = "decode"
    /\ IF ~WIFEXITED(loc[t].stat)
       THEN /\ loc' = [loc EXCEPT ![t]._errno = ECHILD, ![t].file_fd = -1]
            /\ UNCHANGED <<fdtab, chan, errno, worker, env>>
       ELSE IF WEXITSTATUS(loc[t].stat) = 0
       THEN \E r \in {"rights", "nocmsg", "badcmsg", "error"} :
              LET res == read_fd(fdtab, t, chan[t], r, loc[t].file_fd, errno[t]) IN
              /\ Env(r # "rights")
              /\ loc' = [loc EXCEPT ![t].stat = 0, ![t].file_fd = res.recvfd]
              /\ fdtab' = res.tab
              /\ chan' = [chan EXCEPT ![t] = res.ch]
              /\ errno' = [errno EXCEPT ![t] = res.errno]
              /\ worker' = [worker EXCEPT ![t].rcvd = res.rcvd, ![t].cmsg = res.cmsg,
                                          ![t].reads = @ + 1]
       ELSE /\ loc' = [loc EXCEPT ![t].stat = WEXITSTATUS(loc[t].stat),
                                  ![t]._errno = WEXITSTATUS(loc[t].stat),
                                  ![t].file_fd = -1]
            /\ UNCHANGED <<fdtab, chan, errno, worker, env>>
    /\ pc' = [pc EXCEPT ![t] = "finish"]
    /\ UNCHANGED <<lock, baton, uv, tmpl, cb>>

\* a return path that leaves the descriptor flags alone
SetCloexec_Missing(tab, fd) == tab

\* lines 447-450: set FD_CLOEXEC when F_GETFD succeeds
SetCloexec(tab, fd) == IF IsOpen(tab, fd) THEN [tab EXCEPT ![fd].cloexec = TRUE] ELSE tab

\* a return that leaves errno as the last call set it
ReturnedErrno_Unset(file_fd, _errno, e) == e

\* lines 444-452: errno is _errno on a failure and 0 on a success
ReturnedErrno(file_fd, _errno, e) == IF file_fd < 0 THEN _errno ELSE 0

\* lines 442-455: close(sockfd[0]), unlock, set errno, mark the descriptor
\* close-on-exec, return file_fd
Finish(t) ==
    /\ pc[t] = "finish"
    /\ chan' = [chan EXCEPT ![t] = "none"]
    /\ lock' = pthread_mutex_unlock(lock, t)
    /\ LET tab1 == Close(fdtab, loc[t].sockfd0) IN
       IF loc[t].file_fd < 0
       THEN /\ fdtab' = tab1
            /\ Return(t, loc[t].file_fd, ReturnedErrno(loc[t].file_fd, loc[t]._errno, errno[t]))
       ELSE /\ fdtab' = SetCloexec(tab1, loc[t].file_fd)
            /\ Return(t, loc[t].file_fd, ReturnedErrno(loc[t].file_fd, loc[t]._errno, errno[t]))
    /\ UNCHANGED <<baton, worker, tmpl, cb, env>>

\* ------------------------------------------------------------------- Next
Next ==
    \E t \in Threads :
        \/ UvZFile(t)
        \/ ZfileLock(t)
        \/ InitTemplate(t)
        \/ Socketpair(t)
        \/ Fork(t)
        \/ ChildSetup(t)
        \/ ChildZoneEnter(t)
        \/ ChildOpen(t)
        \/ ChildSend(t)
        \/ ChildExit(t)
        \/ ChildKilled(t)
        \/ ContractLatest(t)
        \/ TmplClear(t)
        \/ Abandon(t)
        \/ Wait(t)
        \/ Decode(t)
        \/ Finish(t)
        \/ UvLoop(t)
        \/ UvAfter(t)

Spec == Init /\ [][Next]_vars

\* every thread of the pool runs a request
InitConc == InitWith(Threads, {MODE_R}, [bounded |-> TRUE, left |-> MaxFaults])

SpecConc == InitConc /\ [][Next]_vars


\* --------------------------------------------------------------- fairness
\* the steps of thread t in the node process
ParentNext(t) ==
    \/ UvZFile(t) \/ ZfileLock(t) \/ InitTemplate(t) \/ Socketpair(t) \/ Fork(t)
    \/ ContractLatest(t) \/ TmplClear(t) \/ Abandon(t) \/ Wait(t) \/ Decode(t)
    \/ Finish(t) \/ UvLoop(t) \/ UvAfter(t)

\* the steps of the worker forked by thread t
ChildNext(t) ==
    ChildSetup(t) \/ ChildZoneEnter(t) \/ ChildOpen(t) \/ ChildSend(t) \/ ChildExit(t)

\* A thread that can take a step eventually takes one: a system call that
\* can return does return, a free mutex is eventually given to a thread
\* blocked on it, and waitpid returns once the worker has terminated.  A
\* worker that can take a step eventually takes one, so it terminates.
Fairness == \A t \in Threads : WF_vars(ParentNext(t)) /\ WF_vars(ChildNext(t))

\* every thread of the pool runs a request and the environment lets one call
\* fail, which is what a retry or a killed worker takes
InitLive == InitWith(Threads, {MODE_R}, [bounded |-> TRUE, left |-> 1])

SpecLive == InitLive /\ [][Next]_vars /\ Fairness

\* ================================================================ claims
Valid == {MODE_R, MODE_W, MODE_A}

\* zfile has just returned in thread t
Returned(t) == pc[t] = "uv_loop"

\* the worker of thread t exited normally with code k and has been collected
ExitedWith(t, k) ==
    /\ worker[t].wpc = "reaped"
    /\ WIFEXITED(worker[t].status)
    /\ WEXITSTATUS(worker[t].status) = k

\* C1: whenever zfile reports a descriptor, the worker of that attempt
\* entered the zone, opened the file and sent a descriptor, and the reported
\* descriptor is the one received from the channel.
C1_DescriptorImpliesTransfer ==
    \A t \in Threads :
        (Returned(t) /\ uv[t].file_fd >= 0) =>
            /\ worker[t].entered
            /\ worker[t].opened
            /\ worker[t].sent
            /\ uv[t].file_fd = worker[t].rcvd

\* C2: a completed request hands the callback either (null, descriptor),
\* with no error recorded in the baton, or an error that carries the name of
\* the failing call and no descriptor; never both and never neither.
C2_ExactlyOneResult ==
    \A t \in Threads :
        pc[t] = "done" =>
            \/ /\ cb[t].argc = 2 /\ ~cb[t].err /\ cb[t].fd >= 0
               /\ baton[t]._syscall = "NULL" /\ baton[t]._errno = 0
            \/ /\ cb[t].argc = 1 /\ cb[t].err /\ cb[t].fd < 0
               /\ cb[t].syscall # "NULL" /\ baton[t]._fd < 0

C2_Witness ==
    \E t \in Threads :
        pc[t] = "done" /\ cb[t].err /\ cb[t].syscall = "zfile" /\ uv[t].attempts = MaxAttempts + 1

\* C3: the windows of two invocations, from template activation through
\* fork, the worker's run, transfer and reap, never overlap; no thread is at
\* its fork while another thread's template is active.
InWindow(t) ==
    \/ pc[t] \in {"socketpair", "fork", "contract_latest", "tmpl_clear",
                  "abandon", "wait", "decode", "finish"}
    \/ tmpl[t]
    \/ worker[t].wpc \in Running \cup {"zombie"}

C3_WindowsNeverOverlap ==
    \A t, u \in Threads :
        t # u =>
            /\ ~(InWindow(t) /\ InWindow(u))
            /\ (pc[t] = "fork" => ~tmpl[u])

C3_Witness ==
    \E t, u \in Threads :
        /\ t # u
        /\ worker[t].wpc = "open"
        /\ pc[t] = "wait"
        /\ pc[u] = "zfile"
        /\ uv[u].attempts = 2

\* C4: a thread owns the mutex exactly while it is inside zfile's locked
\* region: it holds it from the acquisition to its return, and on every
\* path out the return releases it, so a thread that has returned never
\* owns it.
C4_LockReleasedOnReturn ==
    \A t \in Threads : (lock = t) <=> (pc[t] \in InLock)

C4_Witness ==
    \E t \in Threads :
        /\ Returned(t)
        /\ uv[t].file_fd < 0
        /\ worker[t].wpc = "reaped"
        /\ lock = 0

\* C5: when zfile has returned, every descriptor it obtained, other than
\* the one it returns, is closed.
C5_NoDescriptorLeftOpen ==
    \A t \in Threads :
        Returned(t) =>
            \A n \in FdNums :
                (IsOpen(fdtab, n) /\ fdtab[n].by = t) => n = uv[t].file_fd

\* C6: a request with a mode outside {Read, Write, Append} ends as a failure
\* with no descriptor, and none of its workers opens the path.
C6_InvalidModeFails ==
    \A t \in Threads :
        baton[t]._mode \notin Valid =>
            /\ ~worker[t].opened
            /\ (Returned(t) => uv[t].file_fd < 0)
            /\ (pc[t] = "done" => cb[t].err /\ cb[t].fd < 0)

\* C7: when the worker of an attempt exited normally with a nonzero code k,
\* the attempt returns no descriptor and the error code k.
C7_ExitCodePreserved ==
    \A t \in Threads :
        \A k \in {EXIT_ZONE, EXIT_OPEN, EXIT_SEND, EXIT_MODE} :
            (Returned(t) /\ ExitedWith(t, k)) =>
                (uv[t].file_fd < 0 /\ errno[t] = k)

\* C8: zfile is called at most 3 times for one request; a further call is
\* made only after a failed one and while fewer than 3 were made, whatever
\* the failure was; no call follows a success; the baton gets the result of
\* the last call.
C8_Step(t) ==
    /\ (pc[t] = "zfile" \/ pc[t] \in InLock) => uv[t].attempts \in 1..MaxAttempts
    /\ (pc[t] # "zfile" /\ pc'[t] = "zfile") =>
           \/ pc[t] = "uv_ZFile" /\ uv'[t].attempts = 1
           \/ /\ pc[t] = "uv_loop"
              /\ uv[t].file_fd < 0
              /\ uv[t].attempts < MaxAttempts
              /\ uv'[t].attempts = uv[t].attempts + 1
    /\ (pc[t] = "uv_loop" /\ pc'[t] # "uv_loop") =>
           IF uv[t].file_fd < 0 /\ uv[t].attempts < MaxAttempts
           THEN pc'[t] = "zfile"
           ELSE /\ pc'[t] = "uv_After"
                /\ baton'[t]._fd = uv[t].file_fd
                /\ uv[t].file_fd < 0 => baton'[t]._errno = errno[t]

C8_AtMostThreeAttempts == [][\A t \in Threads : C8_Step(t)]_vars

C8_Witness ==
    \E t \in Threads :
        /\ pc[t] = "uv_After"
        /\ uv[t].attempts = MaxAttempts + 1
        /\ baton[t]._fd < 0
        /\ baton[t]._syscall = "zfile"

\* C9: however often the wait is interrupted, the status is decoded only
\* after the worker has been collected, and the status decoded is the one
\* the worker terminated with (unless the wait ended with ECHILD, which
\* leaves the status untouched).
C9_WaitRetriedUntilReaped ==
    \A t \in Threads :
        /\ pc[t] \in {"decode", "finish"} => worker[t].wpc = "reaped"
        /\ pc[t] = "decode" =>
               \/ loc[t].stat = worker[t].status
               \/ errno[t] = ECHILD /\ loc[t].stat = 0

C9_Witness ==
    \E t \in Threads :
        /\ pc[t] = "decode"
        /\ errno[t] = EINTR
        /\ worker[t].wpc = "reaped"
        /\ loc[t].stat = ExitStatus(EXIT_OPEN)

\* C10: every descriptor zfile returns as a success is open with the
\* close-on-exec flag set when the caller gets it.
C10_ReturnedDescriptorCloexec ==
    \A t \in Threads :
        (Returned(t) /\ uv[t].file_fd >= 0) =>
            (IsOpen(fdtab, uv[t].file_fd) /\ fdtab[uv[t].file_fd].cloexec)

C10_Witness ==
    \E t \in Threads :
        /\ Returned(t)
        /\ uv[t].file_fd >= 0
        /\ uv[t].file_fd = worker[t].rcvd
        /\ fdtab[uv[t].file_fd].kind = "file"
        /\ fdtab[uv[t].file_fd].cloexec

\* C11: a request whose zone name does not resolve completes with an error
\* and no descriptor; it never calls zfile, never owns the mutex and never
\* forks a worker.
C11_UnknownZoneFails ==
    \A t \in Threads :
        uv[t].zoneid < 0 =>
            /\ pc[t] \in {"uv_After", "done"}
            /\ uv[t].attempts = 0
            /\ lock # t
            /\ worker[t] = NoWorker
            /\ ~tmpl[t]
            /\ baton[t]._fd < 0
            /\ baton[t]._syscall = "getzoneidbyname"
            /\ (pc[t] = "done" => cb[t].err /\ cb[t].fd < 0)

C11_Witness ==
    \E t \in Threads :
        /\ pc[t] = "done"
        /\ uv[t].zoneid < 0
        /\ cb[t].err
        /\ cb[t].syscall = "getzoneidbyname"
        /\ cb[t].errno = EINVAL

\* the operations of one request that can fail
FailingSteps ==
    {"getzoneidbyname", "init_template", "socketpair", "fork", "zone_enter",
     "open", "write_fd", "waitpid", "read_fd"}

\* C12: the error a failed request hands to the callback carries the name
\* of the operation that failed (zone lookup, template, channel, fork, zone
\* entry, open, transfer or reap).
C12_ErrorNamesFailingStep ==
    \A t \in Threads :
        (pc[t] = "done" /\ cb[t].err) => cb[t].syscall \in FailingSteps

\* the terminated worker of thread t and its normal exit code
Terminated(t) == worker[t].wpc \in {"zombie", "reaped"}
ExitedNormally(t) == Terminated(t) /\ worker[t].status % 256 = 0
ExitCode(t) == (worker[t].status \div 256) % 256

ForWriting(flags) == "O_WRONLY" \in flags \/ "O_RDWR" \in flags

\* C13: the flags of the worker's open depend on the mode only: Read is
\* read-only without create or truncate; Write is for writing with create
\* and truncate; Append is for writing at the end with create and without
\* truncate.
C13_OpenFlagsPerMode ==
    \A t \in Threads :
        worker[t].opened =>
            LET f == worker[t].openmode
                m == baton[t]._mode
            IN  /\ m = MODE_R => (~ForWriting(f) /\ f \cap {"O_CREAT", "O_TRUNC"} = {})
                /\ m = MODE_W => (ForWriting(f) /\ {"O_CREAT", "O_TRUNC"} \subseteq f)
                /\ m = MODE_A => (ForWriting(f) /\ {"O_APPEND", "O_CREAT"} \subseteq f
                                    /\ "O_TRUNC" \notin f)

\* C14: the exit code of a worker that exited names its first failing
\* step: 1 when zone entry failed, 6 for an invalid mode, 2 when the open
\* failed, 4 when the send failed, 0 only after entry, open and send; after
\* a failed zone entry it neither opens nor sends.
C14_ExitCodeNamesFirstFailure ==
    \A t \in Threads :
        /\ ~worker[t].entered => (~worker[t].opened /\ ~worker[t].sent)
        /\ ExitedNormally(t) =>
            /\ ~worker[t].entered <=> ExitCode(t) = EXIT_ZONE
            /\ ExitCode(t) = EXIT_MODE <=> (worker[t].entered /\ baton[t]._mode \notin Valid)
            /\ ExitCode(t) = EXIT_OPEN <=>
                   (worker[t].entered /\ baton[t]._mode \in Valid /\ ~worker[t].opened)
            /\ ExitCode(t) = EXIT_SEND <=> (worker[t].opened /\ ~worker[t].sent)
            /\ ExitCode(t) = EXIT_OK <=>
                   (worker[t].entered /\ worker[t].opened /\ worker[t].sent)

\* a wait status that is not one of a normal exit
Abnormal(stat) == stat % 256 # 0

\* C15: when the status waitpid delivered is not one of a normal exit, the
\* decoding yields no descriptor and ECHILD without touching the channel,
\* and zfile returns -1 with errno ECHILD, whatever the worker did before.
C15_Step(t) ==
    /\ (pc[t] = "decode" /\ Abnormal(loc[t].stat) /\ pc'[t] # "decode") =>
           /\ loc'[t].file_fd = -1
           /\ loc'[t]._errno = ECHILD
           /\ chan'[t] = chan[t]
           /\ fdtab' = fdtab
           /\ worker'[t].reads = worker[t].reads
    /\ (/\ pc[t] = "finish"
        /\ loc[t].stat = worker[t].status
        /\ Abnormal(worker[t].status)
        /\ pc'[t] # "finish") =>
           /\ Returned(t)'
           /\ uv'[t].file_fd = -1
           /\ errno'[t] = ECHILD

C16_ChannelReadOnlyAfterExitZero ==
    \A t \in Threads :
        /\ worker[t].reads <= 1
        /\ worker[t].reads = 1 =>
               /\ worker[t].wpc = "reaped"
               /\ worker[t].status = ExitStatus(EXIT_OK)

\* C17: when the worker exited 0 and the received control message is of
\* another level or type, zfile returns no descriptor and errno EINVAL.
C17_MalformedHeaderIsEINVAL ==
    \A t \in Threads :
        (/\ Returned(t)
         /\ worker[t].status = ExitStatus(EXIT_OK)
         /\ worker[t].cmsg = "badcmsg") =>
            (uv[t].file_fd < 0 /\ errno[t] = EINVAL)

\* what an attempt returns, <<descriptor, errno>>, as a function of how its
\* worker ended and of what the receive delivered
ResultOf(w) ==
    CASE w.reads = 0 /\ Abnormal(w.status) -> <<-1, ECHILD>>
      [] w.reads = 0 /\ ~Abnormal(w.status) -> <<-1, (w.status \div 256) % 256>>
      [] w.reads > 0 /\ w.cmsg \in {"eof", "error"} -> <<0, 0>>
      [] w.reads > 0 /\ w.cmsg = "rights" -> <<w.rcvd, 0>>
      [] OTHER -> <<-1, 0>>

\* C18: the result of an attempt does not depend on the tracking steps.
\* Retrieval of the latest contract id and the abandon change nothing but
\* the contract id and errno, whatever their outcome, and the descriptor and
\* errno zfile returns after the fork are determined by the worker's end and
\* the receive alone, so an errno of a tracking step is never returned.
C18_Step(t) ==
    (pc[t] \in {"contract_latest", "abandon"} /\ pc'[t] # pc[t]) =>
        /\ [loc'[t] EXCEPT !.ct = loc[t].ct] = loc[t]
        /\ fdtab' = IF pc[t] = "abandon" THEN Close(fdtab, loc[t].sockfd1) ELSE fdtab
        /\ pc'[t] = IF pc[t] = "abandon" THEN "wait" ELSE "tmpl_clear"
        /\ UNCHANGED <<lock, baton, uv, worker, chan, tmpl, cb>>

C18_ResultDetermined ==
    \A t \in Threads :
        (Returned(t) /\ worker[t].wpc = "reaped") =>
            <<uv[t].file_fd, errno[t]>> = ResultOf(worker[t])

C18_TrackingNeverDecides ==
    /\ [][\A t \in Threads : C18_Step(t)]_vars
    /\ []C18_ResultDetermined

C18_Witness ==
    \E t \in Threads :
        /\ pc[t] = "finish"
        /\ loc[t].ct = -1
        /\ errno[t] = ENOENT
        /\ worker[t].rcvd >= 0
        /\ loc[t].file_fd = worker[t].rcvd

\* the running worker of thread t has the inherited template active
WorkerTmpl(t) == worker[t].tmpl /\ worker[t].wpc \in Running

\* C19: a template zfile activated is active only inside the locked
\* region, between its activation and the clear: a thread that has returned
\* from zfile has none, the worker has cleared its inherited copy before it
\* attempts the zone entry, and no template is active while the mutex is
\* free.
C19_NoTemplateOutsideLock ==
    \A t \in Threads :
        /\ tmpl[t] =>
               (lock = t /\ pc[t] \in {"socketpair", "fork", "contract_latest", "tmpl_clear"})
        /\ Returned(t) => ~tmpl[t]
        /\ WorkerTmpl(t) => worker[t].wpc = "setup"
        /\ lock = 0 => (~tmpl[t] /\ ~WorkerTmpl(t))

C19_Witness ==
    \E t \in Threads :
        /\ Returned(t)
        /\ uv[t].file_fd = -1
        /\ errno[t] = EAGAIN
        /\ worker[t].wpc = "none"
        /\ ~tmpl[t]
        /\ lock = 0

\* C20: with workers that terminate and fair scheduling, every call of
\* zfile returns and releases the mutex, every thread blocked on the mutex
\* gets it, and every request completes: in the end all requests are done
\* and the mutex is free.
C20_EveryCallReturns == <>[](lock = 0 /\ \A t \in Threads : pc[t] = "done")

C20_Witness ==
    /\ lock = 0
    /\ \A t \in Threads : pc[t] = "done"
    /\ \E t, u \in Threads :
          /\ t # u
          /\ cb[t].fd > 2
          /\ uv[u].attempts > 2

====
